---- MODULE Spec2Model ----
(***************************************************************************)
(* A model of the session log-mining scripts (utils.py, parse.py,          *)
(* search.py, discover.py): a session log is an append-only sequence of    *)
(* lines; the quick metadata scan, the full parse and the search read a    *)
(* static snapshot of it.                                                  *)
(*                                                                         *)
(* Text is a sequence of one-character strings.  A Python None is the      *)
(* record None, a value that may be a str or a list is tagged (Str, List), *)
(* a dict is a function whose DOMAIN is its key set.                       *)
(***************************************************************************)
EXTENDS Integers, Sequences, FiniteSets, TLC

VARIABLES
    mode,      \* which family of inputs this behaviour draws from
    pc,        \* "write" | "parse" | "done"
    op,        \* the operation that ran: "none" | "quick" | "parse" | "search" | ...
    file,      \* the log file: a sequence of lines
    store,     \* the session files of the scope, each with its path and lines
    records,   \* parse_session: the decoded record list
    idx,       \* parse_session: index of the next record of the main loop
    st,        \* parse_session: the loop's local variables
    out,       \* the value the operation returned
    arg        \* the arguments the operation was called with

vars == <<mode, pc, op, file, store, records, idx, st, out, arg>>

---------------------------------------------------------------------------
(* Bounds of the model *)

\* longest log file, in lines
MaxLines == 3

---------------------------------------------------------------------------
(* Python values *)

None == [tag |-> "None"]

Some(x) == [tag |-> "Some", v |-> x]

\* dict.get(key, default)
Get(d, key, default) == IF key \in DOMAIN d THEN d[key] ELSE default

\* a str value and a list value, told apart as isinstance does
Str(s) == [isa |-> "str", s |-> s]

List(items) == [isa |-> "list", items |-> items]

Max(a, b) == IF a >= b THEN a ELSE b

Min(a, b) == IF a <= b THEN a ELSE b

---------------------------------------------------------------------------
(* Text: str methods used by the scripts *)

\* the characters str.strip() removes (those the model's texts can hold)
Whitespace == {" ", "\n", "\t"}

RECURSIVE LStrip(_)
LStrip(s) ==
    IF s # <<>> /\ Head(s) \in Whitespace THEN LStrip(Tail(s)) ELSE s

RECURSIVE RStrip(_)
RStrip(s) ==
    IF s # <<>> /\ s[Len(s)] \in Whitespace
    THEN RStrip(SubSeq(s, 1, Len(s) - 1))
    ELSE s

\* str.strip()
Strip(s) == RStrip(LStrip(s))

\* str.replace(old, new) for one-character old and new
Replace(s, old, new) == [i \in 1..Len(s) |-> IF s[i] = old THEN new ELSE s[i]]

\* sep.join(texts)
RECURSIVE Join(_, _)
Join(sep, texts) ==
    IF texts = <<>> THEN <<>>
    ELSE IF Len(texts) = 1 THEN texts[1]
    ELSE texts[1] \o sep \o Join(sep, Tail(texts))

\* str.startswith(prefix)
StartsWith(s, prefix) ==
    Len(s) >= Len(prefix) /\ SubSeq(s, 1, Len(prefix)) = prefix

\* str.lower() on one character
LowerChar(c) ==
    CASE c = "A" -> "a"
      [] c = "B" -> "b"
      [] c = "F" -> "f"
      [] c = "H" -> "h"
      [] c = "I" -> "i"
      [] c = "O" -> "o"
      [] c = "X" -> "x"
      [] OTHER -> c

Lower(s) == [i \in 1..Len(s) |-> LowerChar(s[i])]

---------------------------------------------------------------------------
(* Timestamps *)

\* record.get("timestamp") of a record with no timestamp key
TsAbsent == [k |-> "absent"]

\* a timestamp string datetime.fromisoformat rejects
TsBad == [k |-> "bad"]

\* an ISO-8601 string: sec counts the seconds from 2020-01-01T00:00:00 (so the
\* year is before 2020 iff sec < 0) on the clock of the zone the string names;
\* tz is the suffix "Z", "+00:00", "+01:00" or "" (naive)
Iso(sec, tz) == [k |-> "iso", sec |-> sec, tz |-> tz]

\* the seconds a zone suffix is ahead of UTC
UtcOffset(tz) == IF tz = "+01:00" THEN 3600 ELSE 0

\* Python truthiness of record.get("timestamp")
TsTruthy(ts) == ts.k # "absent"

\* utils.parse_timestamp: a datetime, None for a string that does not parse,
\* and an AttributeError (None has no endswith) for None
parse_timestamp(ts) ==
    CASE ts.k = "iso" -> Some([sec |-> ts.sec, aware |-> ts.tz # "",
                               off |-> UtcOffset(ts.tz)])
      [] ts.k = "bad" -> None
      [] OTHER -> [tag |-> "AttributeError"]

\* datetime.isoformat()
isoformat(dt) ==
    Iso(dt.sec, IF ~dt.aware THEN ""
                ELSE IF dt.off = 0 THEN "+00:00" ELSE "+01:00")

\* the point in time of a datetime, in seconds of UTC
Instant(dt) == dt.sec - dt.off

\* datetime.year < 2020
YearBefore2020(dt) == dt.sec < 0

\* (a - b).total_seconds(); subtracting a naive and an aware datetime raises
total_seconds(a, b) ==
    IF a.aware = b.aware THEN Some(Instant(a) - Instant(b))
    ELSE [tag |-> "TypeError"]

---------------------------------------------------------------------------
(* Lines and records of a log file *)

\* a line json.loads rejects
Malformed == [kind |-> "bad"]

\* a line that is empty after strip()
Blank == [kind |-> "blank"]

\* a decodable line: a record with its type, timestamp and message
Rec(type, ts, content, usage) ==
    [kind |-> "record", type |-> type, timestamp |-> ts,
     content |-> content, usage |-> usage]

\* content blocks
Text(t) == [type |-> "text", text |-> t]

Thinking(t) == [type |-> "thinking", thinking |-> t]

ToolUse(id, name, input) ==
    [type |-> "tool_use", id |-> id, name |-> name, input |-> input]

ToolResult(id, content) ==
    [type |-> "tool_result", tool_use_id |-> id, content |-> content]

\* utils.read_jsonl_file: the decoded records, in file order
RECURSIVE read_jsonl_file(_)
read_jsonl_file(lines) ==
    IF lines = <<>> THEN <<>>
    ELSE IF Head(lines).kind = "blank" THEN read_jsonl_file(Tail(lines))
    ELSE IF Head(lines).kind = "bad" THEN read_jsonl_file(Tail(lines))
    ELSE <<Head(lines)>> \o read_jsonl_file(Tail(lines))

---------------------------------------------------------------------------
(* parse.py: extraction from message content *)

\* the blocks of a content list whose type discriminator is `type`, in order
RECURSIVE BlocksOfType(_, _)
BlocksOfType(blocks, type) ==
    IF blocks = <<>> THEN <<>>
    ELSE (IF Head(blocks).type = type THEN <<Head(blocks)>> ELSE <<>>)
         \o BlocksOfType(Tail(blocks), type)

\* the texts of the text blocks of a block list
TextsOf(blocks) ==
    LET sel == BlocksOfType(blocks, "text")
    IN  [i \in 1..Len(sel) |-> sel[i].text]

\* parse.extract_tool_calls: the tool_use blocks of the content, in order
extract_tool_calls(content) ==
    LET sel == IF content.isa = "list"
               THEN BlocksOfType(content.items, "tool_use")
               ELSE <<>>
    IN  [i \in 1..Len(sel) |->
            [id |-> sel[i].id, name |-> sel[i].name, input |-> sel[i].input]]

\* the text of one tool_result block: its content, nested text blocks joined
ResultText(block) ==
    IF block.content.isa = "list"
    THEN Join(<<"\n">>, TextsOf(block.content.items))
    ELSE block.content.s

\* parse.extract_tool_results: tool_use_id -> text; a later block of the same
\* id replaces an earlier one
RECURSIVE ToolResultsOf(_, _)
ToolResultsOf(items, results) ==
    IF items = <<>> THEN results
    ELSE LET b == Head(items) IN
         IF b.type = "tool_result"
         THEN ToolResultsOf(Tail(items),
                [k \in DOMAIN results \cup {b.tool_use_id} |->
                    IF k = b.tool_use_id THEN ResultText(b) ELSE results[k]])
         ELSE ToolResultsOf(Tail(items), results)

extract_tool_results(content) == ToolResultsOf(content.items, <<>>)

\* parse.extract_text_content
extract_text_content(content) ==
    IF content.isa = "str" THEN content.s
    ELSE Join(<<"\n">>, TextsOf(content.items))

\* dict.update
Update(d, new) ==
    [k \in DOMAIN d \cup DOMAIN new |-> IF k \in DOMAIN new THEN new[k] ELSE d[k]]

---------------------------------------------------------------------------
(* parse.parse_session: the main loop over the records *)

\* the loop's local variables before the first record.  A turn is a dict the
\* list `turns` and the cursor `current_turn` both refer to: heap holds the
\* turn objects in creation order, turns and current_turn hold indices into it
\* (0 is None).
ParseInit ==
    [heap |-> <<>>, turns |-> <<>>, current_turn |-> 0,
     tool_results |-> <<>>,
     total_input_tokens |-> 0, total_output_tokens |-> 0,
     total_cache_read |-> 0, total_cache_create |-> 0,
     tool_counts |-> <<>>,
     files_read |-> {}, files_edited |-> {}, files_created |-> {},
     commands_run |-> <<>>,
     first_timestamp |-> None, last_timestamp |-> None]

\* lines 148-155: the first and the last timestamp that parses
TrackTimestamp(s, record) ==
    LET ts == IF TsTruthy(record.timestamp)
              THEN parse_timestamp(record.timestamp) ELSE None
    IN  IF ts.tag = "Some"
        THEN [s EXCEPT !.first_timestamp = IF @ = None THEN ts ELSE @,
                       !.last_timestamp = ts]
        ELSE s

\* lines 157-182: a user record
UserRecord(s, record) ==
    LET content == record.content
        s1 == IF s.current_turn # 0
              THEN [s EXCEPT !.turns = Append(@, s.current_turn)]
              ELSE s
        s2 == IF content.isa = "list"
              THEN [s1 EXCEPT !.tool_results =
                        Update(@, extract_tool_results(content))]
              ELSE s1
        user_text == extract_text_content(content)
    IN  IF Strip(user_text) = <<>>
        THEN s2
        ELSE [s2 EXCEPT
                !.heap = Append(@, [user_message |-> user_text,
                                    assistant_response |-> <<>>,
                                    tool_calls |-> <<>>,
                                    timestamp |-> record.timestamp,
                                    duration_seconds |-> 0]),
                !.current_turn = Len(s2.heap) + 1]

\* a tally that keeps a command once however often it is run
CountTool_CommandsOnce(s, tc) ==
    LET file_path == Get(tc.input, "file_path", <<>>)
        command == Get(tc.input, "command", <<>>)
        s1 == [s EXCEPT !.tool_counts =
                  Update(@, [n \in {tc.name} |-> Get(s.tool_counts, tc.name, 0) + 1])]
    IN  CASE tc.name = "Read" /\ file_path # <<>> ->
               [s1 EXCEPT !.files_read = @ \cup {file_path}]
          [] tc.name = "Write" /\ file_path # <<>> ->
               [s1 EXCEPT !.files_created = @ \cup {file_path}]
          [] tc.name = "Edit" /\ file_path # <<>> ->
               [s1 EXCEPT !.files_edited = @ \cup {file_path}]
          [] tc.name = "Bash" /\ command # <<>>
             /\ \A i \in 1..Len(s.commands_run) : s.commands_run[i] # command ->
               [s1 EXCEPT !.commands_run = Append(@, command)]
          [] OTHER -> s1

\* lines 197-225: one tool call: its count, its effect on the file sets and
\* the command list
CountTool(s, tc) ==
    LET file_path == Get(tc.input, "file_path", <<>>)
        command == Get(tc.input, "command", <<>>)
        s1 == [s EXCEPT !.tool_counts =
                  Update(@, [n \in {tc.name} |-> Get(s.tool_counts, tc.name, 0) + 1])]
    IN  CASE tc.name = "Read" /\ file_path # <<>> ->
               [s1 EXCEPT !.files_read = @ \cup {file_path}]
          [] tc.name = "Write" /\ file_path # <<>> ->
               [s1 EXCEPT !.files_created = @ \cup {file_path}]
          [] tc.name = "Edit" /\ file_path # <<>> ->
               [s1 EXCEPT !.files_edited = @ \cup {file_path}]
          [] tc.name = "Bash" /\ command # <<>> ->
               [s1 EXCEPT !.commands_run = Append(@, command)]
          [] OTHER -> s1

RECURSIVE CountTools(_, _)
CountTools(s, tool_calls) ==
    IF tool_calls = <<>> THEN s
    ELSE CountTools(CountTool(s, Head(tool_calls)), Tail(tool_calls))

\* a recording that leaves every result empty
ResultFor_Unfilled(tool_results, tool_id) == <<>>

\* line 225: the result a tool call is given when it is recorded
ResultFor(tool_results, tool_id) == Get(tool_results, tool_id, <<>>)

\* an assistant record whose text is kept only when the turn has none yet
AssistantRecord_KeepsFirstText(s, record) ==
    IF s.current_turn = 0 THEN s
    ELSE
    LET content == record.content
        tool_calls == extract_tool_calls(content)
        with_results ==
            [i \in 1..Len(tool_calls) |->
                [id |-> tool_calls[i].id, name |-> tool_calls[i].name,
                 input |-> tool_calls[i].input,
                 result |-> ResultFor(s.tool_results, tool_calls[i].id)]]
        s1 == CountTools(s, tool_calls)
        usage == record.usage
    IN  [s1 EXCEPT
            !.heap[s.current_turn].assistant_response =
                IF @ = <<>> THEN extract_text_content(content) ELSE @,
            !.heap[s.current_turn].tool_calls = @ \o with_results,
            !.total_input_tokens = @ + Get(usage, "input_tokens", 0),
            !.total_output_tokens = @ + Get(usage, "output_tokens", 0),
            !.total_cache_read = @ + Get(usage, "cache_read_input_tokens", 0),
            !.total_cache_create =
                @ + Get(usage, "cache_creation_input_tokens", 0)]

\* lines 184-234: an assistant record
AssistantRecord(s, record) ==
    IF s.current_turn = 0 THEN s
    ELSE
    LET content == record.content
        tool_calls == extract_tool_calls(content)
        with_results ==
            [i \in 1..Len(tool_calls) |->
                [id |-> tool_calls[i].id, name |-> tool_calls[i].name,
                 input |-> tool_calls[i].input,
                 result |-> ResultFor(s.tool_results, tool_calls[i].id)]]
        s1 == CountTools(s, tool_calls)
        usage == record.usage
    IN  [s1 EXCEPT
            !.heap[s.current_turn].assistant_response =
                extract_text_content(content),
            !.heap[s.current_turn].tool_calls = @ \o with_results,
            !.total_input_tokens = @ + Get(usage, "input_tokens", 0),
            !.total_output_tokens = @ + Get(usage, "output_tokens", 0),
            !.total_cache_read = @ + Get(usage, "cache_read_input_tokens", 0),
            !.total_cache_create =
                @ + Get(usage, "cache_creation_input_tokens", 0)]

\* lines 146-234: the loop body for one record
ParseStep(s, record) ==
    LET s1 == TrackTimestamp(s, record)
    IN  CASE record.type = "user" -> UserRecord(s1, record)
          [] record.type = "assistant" -> AssistantRecord(s1, record)
          [] OTHER -> s1

RECURSIVE ParseLoop(_, _)
ParseLoop(s, recs) ==
    IF recs = <<>> THEN s ELSE ParseLoop(ParseStep(s, Head(recs)), Tail(recs))

---------------------------------------------------------------------------
(* parse.parse_session: after the loop *)

Raise(exc) == [tag |-> "raise", exc |-> exc]

\* lines 246-251: the duration of turn i and of the turns after it, written
\* into the turn objects; parse_timestamp raises on a turn whose record had no
\* timestamp
RECURSIVE BackFill(_, _, _)
BackFill(heap, turns, i) ==
    IF i > Len(turns) THEN [tag |-> "ok", heap |-> heap]
    ELSE
    LET turn_ts == parse_timestamp(heap[turns[i]].timestamp) IN
    IF turn_ts.tag = "AttributeError" THEN Raise("AttributeError")
    ELSE IF turn_ts.tag = "Some" /\ i < Len(turns)
    THEN LET next_ts == parse_timestamp(heap[turns[i + 1]].timestamp) IN
         IF next_ts.tag = "AttributeError" THEN Raise("AttributeError")
         ELSE IF next_ts.tag = "Some"
         THEN LET d == total_seconds(next_ts.v, turn_ts.v) IN
              IF d.tag = "TypeError" THEN Raise("TypeError")
              ELSE BackFill([heap EXCEPT ![turns[i]].duration_seconds = d.v],
                            turns, i + 1)
         ELSE BackFill(heap, turns, i + 1)
    ELSE BackFill(heap, turns, i + 1)

\* the code point of a character, for the characters file paths are written in
CodePoint(c) ==
    CASE c = "/" -> 47
      [] c = "f" -> 102
      [] c = "g" -> 103
      [] OTHER -> 120

\* str < str: the first difference decides, and a proper prefix is less
RECURSIVE StrLess(_, _)
StrLess(a, b) ==
    IF b = <<>> THEN FALSE
    ELSE IF a = <<>> THEN TRUE
    ELSE IF Head(a) # Head(b) THEN CodePoint(Head(a)) < CodePoint(Head(b))
    ELSE StrLess(Tail(a), Tail(b))

\* sorted(list(a set of strings))
RECURSIVE Sorted(_)
Sorted(strings) ==
    IF strings = {} THEN <<>>
    ELSE LET least == CHOOSE x \in strings :
                         \A y \in strings \ {x} : StrLess(x, y)
         IN  <<least>> \o Sorted(strings \ {least})

\* sum(tool_counts.values())
RECURSIVE SumValues(_)
SumValues(d) ==
    IF DOMAIN d = {} THEN 0
    ELSE LET k == CHOOSE x \in DOMAIN d : TRUE
         IN  d[k] + SumValues([x \in DOMAIN d \ {k} |-> d[x]])

\* lines 236-282: the last turn, the durations, the metadata and the stats
ParseFinish(s) ==
    LET turns == IF s.current_turn # 0
                 THEN Append(s.turns, s.current_turn) ELSE s.turns
        duration == IF s.first_timestamp # None /\ s.last_timestamp # None
                    THEN total_seconds(s.last_timestamp.v, s.first_timestamp.v)
                    ELSE Some(0)
        filled == BackFill(s.heap, turns, 1)
    IN  IF duration.tag = "TypeError" THEN Raise("TypeError")
        ELSE IF filled.tag = "raise" THEN filled
        ELSE
        [tag |-> "ok",
         metadata |->
            [date |-> IF s.first_timestamp # None
                      THEN Some(isoformat(s.first_timestamp.v)) ELSE None,
             duration_seconds |-> duration.v],
         turns |-> [i \in 1..Len(turns) |-> filled.heap[turns[i]]],
         stats |->
            [turn_count |-> Len(turns),
             tool_counts |-> s.tool_counts,
             total_tool_calls |-> SumValues(s.tool_counts),
             tokens |-> [input |-> s.total_input_tokens,
                         output |-> s.total_output_tokens,
                         cache_read |-> s.total_cache_read,
                         cache_create |-> s.total_cache_create],
             files_read |-> Sorted(s.files_read),
             files_edited |-> Sorted(s.files_edited),
             files_created |-> Sorted(s.files_created),
             commands_run |-> s.commands_run,
             unique_files_read |-> Cardinality(s.files_read),
             unique_files_edited |-> Cardinality(s.files_edited),
             unique_files_created |-> Cardinality(s.files_created),
             commands_count |-> Len(s.commands_run)]]

\* parse.parse_session on a file that exists
parse_session(lines) ==
    LET recs == read_jsonl_file(lines)
    IN  IF recs = <<>> THEN None ELSE ParseFinish(ParseLoop(ParseInit, recs))

---------------------------------------------------------------------------
(* utils.get_session_quick_metadata *)

\* utils.truncate_text
truncate_text(text, max_length) ==
    IF Len(text) <= max_length THEN text
    ELSE RStrip(SubSeq(text, 1, max_length - 3)) \o <<".", ".", ".">>

\* the preview of a file with no substantive user message
NoPreview == <<"(", "n", "o", " ", "p", "r", "e", "v", "i", "e", "w", ")">>

\* the preview length get_session_quick_metadata truncates to
PreviewLength == 80

QuickInit ==
    [first_user_message |-> None, first_timestamp |-> None,
     last_timestamp |-> None, message_count |-> 0]

\* a scan that reads the timestamps of user and assistant records only
QuickTrackTimestamp_MessagesOnly(q, record) ==
    LET ts == IF TsTruthy(record.timestamp)
                 /\ record.type \in {"user", "assistant"}
              THEN parse_timestamp(record.timestamp) ELSE None
    IN  IF ts.tag = "Some"
        THEN [q EXCEPT !.first_timestamp = IF @ = None THEN ts ELSE @,
                       !.last_timestamp = ts]
        ELSE q

\* lines 248-255: the first and the last timestamp that parses
QuickTrackTimestamp(q, record) ==
    LET ts == IF TsTruthy(record.timestamp)
              THEN parse_timestamp(record.timestamp) ELSE None
    IN  IF ts.tag = "Some"
        THEN [q EXCEPT !.first_timestamp = IF @ = None THEN ts ELSE @,
                       !.last_timestamp = ts]
        ELSE q

\* lines 264-273: the text a user record offers as preview: the stripped
\* string content, or the stripped text of the first text block
PreviewText(content) ==
    IF content.isa = "str" THEN Strip(content.s)
    ELSE LET texts == TextsOf(content.items)
         IN  IF texts = <<>> THEN <<>> ELSE Strip(texts[1])

\* a scan in which a later substantive user message replaces the preview
TrackPreview_LatestWins(q, record) ==
    IF record.type = "user"
    THEN LET text == PreviewText(record.content)
         IN  IF text # <<>> /\ ~StartsWith(text, <<"<">>)
                /\ ~StartsWith(text, <<"/">>)
             THEN [q EXCEPT !.first_user_message = Some(text)]
             ELSE q
    ELSE q

\* lines 262-276: the first substantive user message, never replaced
TrackPreview(q, record) ==
    IF q.first_user_message = None /\ record.type = "user"
    THEN LET text == PreviewText(record.content)
         IN  IF text # <<>> /\ ~StartsWith(text, <<"<">>)
                /\ ~StartsWith(text, <<"/">>)
             THEN [q EXCEPT !.first_user_message = Some(text)]
             ELSE q
    ELSE q

\* a scan that counts only the assistant records as messages
CountMessage_AssistantOnly(q, record) ==
    IF record.type = "assistant"
    THEN [q EXCEPT !.message_count = @ + 1]
    ELSE q

\* lines 278-280: user and assistant records are messages
CountMessage(q, record) ==
    IF record.type \in {"user", "assistant"}
    THEN [q EXCEPT !.message_count = @ + 1]
    ELSE q

\* lines 241-283: one line of the file
QuickStep(q, line) ==
    CASE line.kind = "blank" -> q
      [] line.kind = "bad" -> q
      [] OTHER -> CountMessage(TrackPreview(QuickTrackTimestamp(q, line), line), line)

\* a scan that a malformed line ends
RECURSIVE QuickLoop_StopAtBadLine(_, _)
QuickLoop_StopAtBadLine(q, lines) ==
    IF lines = <<>> \/ Head(lines).kind = "bad" THEN q
    ELSE QuickLoop_StopAtBadLine(QuickStep(q, Head(lines)), Tail(lines))

\* lines 241-283: the lines of the file, in order
RECURSIVE QuickLoop(_, _)
QuickLoop(q, lines) ==
    IF lines = <<>> THEN q ELSE QuickLoop(QuickStep(q, Head(lines)), Tail(lines))

\* a result with no sanity floor on the year
QuickFinish_NoYearFloor(q) ==
    IF q.first_timestamp = None
    THEN None
    ELSE [tag |-> "ok",
          date |-> isoformat(q.first_timestamp.v),
          duration_seconds |->
              total_seconds(q.last_timestamp.v, q.first_timestamp.v).v,
          preview |-> truncate_text(
              IF q.first_user_message = None THEN NoPreview
              ELSE q.first_user_message.v, PreviewLength),
          message_count |-> q.message_count]

\* lines 287-306: the result
QuickFinish(q) ==
    IF q.first_timestamp = None \/ YearBefore2020(q.first_timestamp.v)
    THEN None
    ELSE LET duration == total_seconds(q.last_timestamp.v, q.first_timestamp.v)
         IN  IF duration.tag = "TypeError" THEN Raise("TypeError")
             ELSE [tag |-> "ok",
                   date |-> isoformat(q.first_timestamp.v),
                   duration_seconds |-> duration.v,
                   preview |-> truncate_text(
                       IF q.first_user_message = None THEN NoPreview
                       ELSE q.first_user_message.v, PreviewLength),
                   message_count |-> q.message_count]

get_session_quick_metadata(lines) == QuickFinish(QuickLoop(QuickInit, lines))

---------------------------------------------------------------------------
(* search.py *)

\* the keys of a tool input, in the order the log wrote them
InputKeys == <<"file_path", "command">>

\* lines 53-57: the string values of a tool input
InputValues(input) ==
    LET present == SelectSeq(InputKeys, LAMBDA k : k \in DOMAIN input)
    IN  [i \in 1..Len(present) |-> input[present[i]]]

\* lines 47-66: the searchable texts of one content block
BlockTexts(item) ==
    CASE item.type = "text" -> <<item.text>>
      [] item.type = "tool_use" -> InputValues(item.input)
      [] item.type = "tool_result" ->
            IF item.content.isa = "str" THEN <<item.content.s>>
            ELSE TextsOf(item.content.items)
      [] OTHER -> <<>>

RECURSIVE AllBlockTexts(_)
AllBlockTexts(items) ==
    IF items = <<>> THEN <<>>
    ELSE BlockTexts(Head(items)) \o AllBlockTexts(Tail(items))

\* search.extract_text_from_record
extract_text_from_record(record) ==
    Join(<<" ">>,
         IF record.content.isa = "str" THEN <<record.content.s>>
         ELSE AllBlockTexts(record.content.items))

\* whether the pattern matches text at offset i (0-based)
MatchesAt(text, query, i, case_insensitive) ==
    LET piece == SubSeq(text, i + 1, i + Len(query))
    IN  IF case_insensitive THEN Lower(piece) = Lower(query) ELSE piece = query

\* pattern.search(text): the offset of the first occurrence, -1 when none
FindFirst(text, query, case_insensitive) ==
    LET hits == {i \in 0..(Len(text) - Len(query)) :
                    MatchesAt(text, query, i, case_insensitive)}
    IN  IF hits = {} THEN -1
        ELSE CHOOSE i \in hits : \A j \in hits : i <= j

\* characters of context kept before the match and after it
ContextBefore == 50

ContextAfter == 100

Ellipsis == <<".", ".", ".">>

\* a window whose start is taken 50 characters after the match, not before
ContextOf_SignSlip(text, query, m) ==
    LET start == Max(0, m + ContextBefore)
        end == Min(Len(text), m + Len(query) + ContextAfter)
        context == Strip(Replace(SubSeq(text, start + 1, end), "\n", " "))
    IN  (IF start > 0 THEN Ellipsis ELSE <<>>) \o context
        \o (IF end < Len(text) THEN Ellipsis ELSE <<>>)

\* lines 96-106: the context string of a match at offset m
ContextOf(text, query, m) ==
    LET start == Max(0, m - ContextBefore)
        end == Min(Len(text), m + Len(query) + ContextAfter)
        context == Strip(Replace(SubSeq(text, start + 1, end), "\n", " "))
    IN  (IF start > 0 THEN Ellipsis ELSE <<>>) \o context
        \o (IF end < Len(text) THEN Ellipsis ELSE <<>>)

\* a search that reports a record once more when the query occurs in it again
SearchRecord_EveryOccurrence(record, query, case_insensitive) ==
    IF record.type \notin {"user", "assistant"} THEN <<>>
    ELSE LET text == extract_text_from_record(record)
             m == FindFirst(text, query, case_insensitive)
             again == m >= 0
                      /\ FindFirst(SubSeq(text, m + 2, Len(text)), query,
                                   case_insensitive) >= 0
             match == [type |-> record.type,
                       context |-> ContextOf(text, query, m),
                       timestamp |-> record.timestamp]
         IN  IF text = <<>> \/ m < 0 THEN <<>>
             ELSE IF again THEN <<match, match>> ELSE <<match>>

\* lines 84-112: the matches of one record: none or one
SearchRecord(record, query, case_insensitive) ==
    IF record.type \notin {"user", "assistant"} THEN <<>>
    ELSE LET text == extract_text_from_record(record)
             m == FindFirst(text, query, case_insensitive)
         IN  IF text = <<>> \/ m < 0 THEN <<>>
             ELSE <<[type |-> record.type,
                     context |-> ContextOf(text, query, m),
                     timestamp |-> record.timestamp]>>

RECURSIVE SearchLoop(_, _, _)
SearchLoop(recs, query, case_insensitive) ==
    IF recs = <<>> THEN <<>>
    ELSE SearchRecord(Head(recs), query, case_insensitive)
         \o SearchLoop(Tail(recs), query, case_insensitive)

\* search.search_session
search_session(lines, query, case_insensitive) ==
    SearchLoop(read_jsonl_file(lines), query, case_insensitive)

---------------------------------------------------------------------------
(* The inputs: the lines a session log can hold *)

T10 == Iso(10, "Z")

T30 == Iso(30, "Z")

\* a placeholder timestamp of a year before 2020
TOld == Iso(-5, "Z")

\* a timestamp written without a zone: it parses to a naive datetime
TNaive == Iso(40, "")

\* a function with one key: a dict literal {key: value}
Dict1(key, value) == [k \in {key} |-> value]

Dict2(k1, v1, k2, v2) == [k \in {k1, k2} |-> IF k = k1 THEN v1 ELSE v2]

\* user records: a typed message, a message of white space only, tool
\* results with no human text (string and nested content), text with a result
UserLines ==
    { Rec("user", T10, Str(<<"h", "i">>), <<>>),
      Rec("user", TsBad, Str(<<" ">>), <<>>),
      Rec("user", T30, List(<<ToolResult("t1", Str(<<"o", "1">>))>>), <<>>),
      Rec("user", T30,
          List(<<ToolResult("t1", List(<<Text(<<"p">>), Text(<<"q">>)>>)),
                 ToolResult("t2", Str(<<"o", "2">>))>>), <<>>),
      Rec("user", T30,
          List(<<Text(<<"y", "o">>), ToolResult("t1", Str(<<"o", "3">>))>>),
          <<>>) }

\* assistant records: text, tool calls, usage blocks with fields missing
AssistantLines ==
    { Rec("assistant", TsAbsent, List(<<Text(<<"o", "k">>)>>),
          Dict2("input_tokens", 1, "output_tokens", 2)),
      Rec("assistant", T30,
          List(<<Text(<<"r">>),
                 ToolUse("t1", "Read", Dict1("file_path", <<"f">>))>>),
          Dict2("input_tokens", 2, "cache_read_input_tokens", 1)),
      Rec("assistant", T30,
          List(<<ToolUse("t2", "Bash", Dict1("command", <<"l", "s">>)),
                 ToolUse("t1", "Write", Dict1("file_path", <<"f">>))>>),
          Dict1("cache_creation_input_tokens", 3)) }

\* records of another type: one with a placeholder timestamp, one whose
\* timestamp carries no zone
OtherLines ==
    { Rec("system", TOld, Str(<<"h", "i">>), <<>>),
      Rec("summary", TNaive, Str(<<"h", "i">>), <<>>) }

ContentLines == UserLines \cup AssistantLines \cup OtherLines \cup {Malformed}

\* the queries of a search
Queries == { <<"h">>, <<"O">>, <<"f">> }

\* lines that differ in their timestamps: user messages in and out of time
\* order, one with no timestamp, one whose timestamp does not parse, a message
\* of white space only, and records of other types that carry timestamps
TimingLines ==
    { Rec("user", T10, Str(<<"h", "i">>), <<>>),
      Rec("user", T30, Str(<<"y", "o">>), <<>>),
      Rec("user", TsAbsent, Str(<<"n", "o">>), <<>>),
      Rec("user", TsBad, Str(<<"b">>), <<>>),
      Rec("user", TsBad, Str(<<" ">>), <<>>),
      Rec("assistant", Iso(50, "Z"), List(<<Text(<<"o", "k">>)>>), <<>>),
      Rec("system", TOld, Str(<<"h", "i">>), <<>>),
      Rec("summary", TNaive, Str(<<"h", "i">>), <<>>) }

\* n filler characters
Filler(n) == [i \in 1..n |-> "x"]

\* user messages that offer a preview or not: plain text, a command after
\* white space, a tag, white space only, a first text block that is blank
\* before one that is not, text after a tool result, two text blocks, a text
\* longer than the preview; and an assistant message
PreviewLines ==
    { Rec("user", T10, Str(<<"h", "i">>), <<>>),
      Rec("user", T10, Str(<<" ", "/", "x">>), <<>>),
      Rec("user", T10, Str(<<"<", "t", ">">>), <<>>),
      Rec("user", T10, Str(<<" ">>), <<>>),
      Rec("user", T10, List(<<Text(<<" ">>), Text(<<"r", "e">>)>>), <<>>),
      Rec("user", T10,
          List(<<ToolResult("t1", Str(<<"o", "1">>)), Text(<<"y", "o">>)>>),
          <<>>),
      Rec("user", T10, List(<<Text(<<"a">>), Text(<<"b">>)>>), <<>>),
      Rec("user", T10, Str(<<"l", " ">> \o Filler(PreviewLength)), <<>>),
      Rec("assistant", T10, List(<<Text(<<"o", "k">>)>>), <<>>) }

\* records to search: a text that holds a letter twice, an empty text, an
\* empty block list, an assistant text in capitals, a tool call whose input
\* holds the letter, a record of another type that holds it, a text without
\* it, and a line that does not decode; each with a timestamp of its own
SearchLines ==
    { Rec("user", Iso(1, "Z"), Str(<<"a", "a">>), <<>>),
      Rec("user", Iso(2, "Z"), Str(<<>>), <<>>),
      Rec("user", Iso(3, "Z"), List(<<>>), <<>>),
      Rec("assistant", Iso(4, "Z"), List(<<Text(<<"A", " ", "b">>)>>), <<>>),
      Rec("assistant", Iso(5, "Z"),
          List(<<ToolUse("t1", "Bash", Dict1("command", <<"a">>))>>), <<>>),
      Rec("system", Iso(6, "Z"), Str(<<"a">>), <<>>),
      Rec("user", Iso(7, "Z"), Str(<<"b">>), <<>>),
      Malformed }

\* the queries of those searches: the empty query, a letter, a capital
SearchQueries == { <<>>, <<"a">>, <<"B">> }

\* the queries a search of the log is given
QueriesOf(m) == IF m = "search" THEN SearchQueries ELSE Queries

\* records with tool calls: a message, a carrier of one result, a message with
\* another result of the same call, and assistant records that read, edit and
\* write files, run a command twice, give an empty path or no command, or only
\* say something
ToolLines ==
    { Rec("user", T10, Str(<<"h", "i">>), <<>>),
      Rec("user", T10, List(<<ToolResult("t1", Str(<<"o", "1">>))>>), <<>>),
      Rec("user", T10,
          List(<<Text(<<"y", "o">>), ToolResult("t1", Str(<<"o", "2">>))>>),
          <<>>),
      Rec("assistant", T10,
          List(<<Text(<<"r", "1">>),
                 ToolUse("t1", "Read", Dict1("file_path", <<"g">>)),
                 ToolUse("t2", "Read", Dict1("file_path", <<"f">>))>>), <<>>),
      Rec("assistant", T10,
          List(<<ToolUse("t3", "Bash", Dict1("command", <<"l", "s">>)),
                 ToolUse("t1", "Edit", Dict1("file_path", <<"f">>)),
                 ToolUse("t4", "Read", Dict1("file_path", <<"f">>))>>), <<>>),
      Rec("assistant", T10,
          List(<<Text(<<"r", "2">>),
                 ToolUse("t5", "Bash", Dict1("command", <<"l", "s">>)),
                 ToolUse("t1", "Write", Dict1("file_path", <<"g">>))>>), <<>>),
      Rec("assistant", T10,
          List(<<ToolUse("t6", "Read", Dict1("file_path", <<>>)),
                 ToolUse("t7", "Bash", <<>>)>>), <<>>),
      Rec("assistant", T10, List(<<Text(<<"r", "3">>)>>), <<>>) }

LinesOf(m) == CASE m = "content" -> ContentLines
                [] m = "timing" -> TimingLines
                [] m = "preview" -> PreviewLines
                [] m = "search" -> SearchLines
                [] m = "tools" -> ToolLines
                [] OTHER -> {}

---------------------------------------------------------------------------
(* The state machine: a log is written, then one tool reads it *)

Init ==
    /\ mode = "content"
    /\ pc = "write"
    /\ op = "none"
    /\ file = <<>>
    /\ store = <<>>
    /\ records = <<>>
    /\ idx = 0
    /\ st = ParseInit
    /\ out = None
    /\ arg = None

\* the session appends a line to its log
AppendLine(line) ==
    /\ pc = "write"
    /\ Len(file) < MaxLines
    /\ file' = Append(file, line)
    /\ UNCHANGED <<mode, store, pc, op, records, idx, st, out, arg>>

\* get_session_quick_metadata(file)
QuickScan ==
    /\ pc = "write"
    /\ out' = get_session_quick_metadata(file)
    /\ pc' = "done"
    /\ op' = "quick"
    /\ UNCHANGED <<mode, store, file, records, idx, st, arg>>

\* parse_session(file), lines 103-144: read the records; no result when none
ParseStart ==
    /\ pc = "write"
    /\ records' = read_jsonl_file(file)
    /\ IF records' = <<>>
       THEN /\ pc' = "done"
            /\ op' = "parse"
            /\ out' = None
            /\ UNCHANGED <<idx, st>>
       ELSE /\ pc' = "parse"
            /\ idx' = 1
            /\ st' = ParseInit
            /\ UNCHANGED <<op, out>>
    /\ UNCHANGED <<mode, store, file, arg>>

\* parse_session, lines 146-234: one iteration of the main loop
ParseRecord ==
    /\ pc = "parse"
    /\ idx <= Len(records)
    /\ st' = ParseStep(st, records[idx])
    /\ idx' = idx + 1
    /\ UNCHANGED <<mode, store, pc, op, file, records, out, arg>>

\* parse_session, lines 236-282: after the loop
ParseEnd ==
    /\ pc = "parse"
    /\ idx > Len(records)
    /\ out' = ParseFinish(st)
    /\ pc' = "done"
    /\ op' = "parse"
    /\ UNCHANGED <<mode, store, file, records, idx, st, arg>>

\* search_session(file, query), case-insensitive as search_sessions calls it
SearchSession(query) ==
    /\ pc = "write"
    /\ out' = search_session(file, query, TRUE)
    /\ arg' = query
    /\ pc' = "done"
    /\ op' = "search"
    /\ UNCHANGED <<mode, store, file, records, idx, st>>

Next ==
    \/ \E line \in LinesOf(mode) : AppendLine(line)
    \/ QuickScan
    \/ ParseStart
    \/ ParseRecord
    \/ ParseEnd
    \/ \E query \in QueriesOf(mode) : SearchSession(query)

Spec == Init /\ [][Next]_vars

---------------------------------------------------------------------------
(* Claims about parse_session *)

\* the parse returned a result
Parsed == pc = "done" /\ op = "parse" /\ out.tag = "ok"

\* the texts of the tool_result blocks with the given id in a block list
RECURSIVE ResultTextsIn(_, _)
ResultTextsIn(items, id) ==
    IF items = <<>> THEN <<>>
    ELSE (IF Head(items).type = "tool_result" /\ Head(items).tool_use_id = id
          THEN ResultText(Head(items)) ELSE <<>>)
         \o ResultTextsIn(Tail(items), id)

\* the concatenated text of every tool_result block of the file with that id
RECURSIVE AllResultText(_, _)
AllResultText(recs, id) ==
    IF recs = <<>> THEN <<>>
    ELSE (IF Head(recs).content.isa = "list"
          THEN ResultTextsIn(Head(recs).content.items, id) ELSE <<>>)
         \o AllResultText(Tail(recs), id)

\* C1: after parse_session every tool call of every turn has as result the
\* concatenation of the text of every tool_result block of the file with the
\* call's id, wherever in the file the block is (the empty string when none)
C1_ResultIsEveryResultBlock ==
    Parsed =>
        \A i \in 1..Len(out.turns) :
            \A j \in 1..Len(out.turns[i].tool_calls) :
                out.turns[i].tool_calls[j].result =
                    AllResultText(read_jsonl_file(file),
                                  out.turns[i].tool_calls[j].id)

\* the user records whose extracted text is not empty after trimming
NonEmptyUsers(recs) ==
    SelectSeq(recs, LAMBDA r :
        r.type = "user" /\ Strip(extract_text_content(r.content)) # <<>>)

\* C2: the turn list holds exactly one turn per user record with non-empty
\* text, in record order, so turn_count is the number of those records
C2_OneTurnPerNonEmptyUser ==
    Parsed =>
        LET users == NonEmptyUsers(read_jsonl_file(file)) IN
        /\ out.stats.turn_count = Len(users)
        /\ Len(out.turns) = Len(users)
        /\ \A i \in 1..Len(users) :
              out.turns[i].user_message = extract_text_content(users[i].content)

\* the sum of one usage field over every assistant record
RECURSIVE UsageSum(_, _)
UsageSum(recs, field) ==
    IF recs = <<>> THEN 0
    ELSE (IF Head(recs).type = "assistant"
          THEN Get(Head(recs).usage, field, 0) ELSE 0)
         + UsageSum(Tail(recs), field)

\* C3: each token total is the sum of that usage field over every assistant
\* record of the file, those before the first turn included
C3_TokensSumEveryAssistant ==
    Parsed =>
        LET recs == read_jsonl_file(file) IN
        /\ out.stats.tokens.input = UsageSum(recs, "input_tokens")
        /\ out.stats.tokens.output = UsageSum(recs, "output_tokens")
        /\ out.stats.tokens.cache_read = UsageSum(recs, "cache_read_input_tokens")
        /\ out.stats.tokens.cache_create =
              UsageSum(recs, "cache_creation_input_tokens")

\* C4: when the quick scan and the parse both return a result for a file, the
\* quick scan's message_count is at least the parse's turn_count
C4_MessageCountAtLeastTurns ==
    (Parsed /\ get_session_quick_metadata(file).tag = "ok") =>
        get_session_quick_metadata(file).message_count >= out.stats.turn_count

\* C4 witness: both return a result for a file with a continuation-only user
\* record, and the parse lists as many turns as the scan counts messages
C4_Witness ==
    /\ Parsed
    /\ get_session_quick_metadata(file).tag = "ok"
    /\ \E i \in 1..Len(file) :
          /\ file[i].kind = "record"
          /\ file[i].type = "user"
          /\ Strip(extract_text_content(file[i].content)) = <<>>
    /\ out.stats.turn_count >= 2
    /\ get_session_quick_metadata(file).message_count = out.stats.turn_count

---------------------------------------------------------------------------
(* Claims about malformed lines and about the quick scan's result *)

\* the file with every line json.loads rejects removed
WithoutMalformed(lines) == SelectSeq(lines, LAMBDA l : l.kind # "bad")

\* C8: the quick scan, the parse and the search return for a file what they
\* return for the same file with its undecodable lines removed
C8_MalformedLinesSkipped ==
    pc = "done" =>
        /\ op = "quick" => out = get_session_quick_metadata(WithoutMalformed(file))
        /\ op = "parse" => out = parse_session(WithoutMalformed(file))
        /\ op = "search" => out = search_session(WithoutMalformed(file), arg, TRUE)

\* C8 witness: a scan returned a result that counts a record standing after a
\* malformed line
C8_Witness ==
    /\ pc = "done"
    /\ op = "quick"
    /\ out.tag = "ok"
    /\ Len(file) >= 2
    /\ file[1].kind = "bad"
    /\ out.message_count >= 1

\* the timestamps of the file that parse, in file order
ParseableTimes(lines) ==
    LET recs == SelectSeq(lines, LAMBDA l :
                    l.kind = "record" /\ l.timestamp.k = "iso")
    IN  [i \in 1..Len(recs) |-> parse_timestamp(recs[i].timestamp).v]

\* the earliest of a non-empty sequence of datetimes
Earliest(times) ==
    CHOOSE t \in {times[i] : i \in 1..Len(times)} :
        \A i \in 1..Len(times) : Instant(t) <= Instant(times[i])

---------------------------------------------------------------------------
(* search_session on one message: the context window *)

\* longest varied part of a message text, and longest query
MaxBody == 3

MaxQuery == 2

\* all sequences over chars of the lengths lo..hi
SeqsOf(chars, lo, hi) == UNION {[1..n -> chars] : n \in lo..hi}

\* n filler characters
Pad(n) == [i \in 1..n |-> "x"]

\* what stands before the varied part: nothing, or 51 characters of which the
\* second is a line break, so that a match at the start of the varied part has
\* its window clipped on a line break
Lefts == {<<>>, <<"a", "\n">> \o Pad(ContextBefore - 1)}

\* what stands after the varied part: nothing, or 101 characters of which the
\* last but one is a space
Rights == {<<>>, Pad(ContextAfter - 1) \o <<" ", "a">>}

SnippetTexts ==
    {l \o body \o r :
        l \in Lefts, r \in Rights, body \in SeqsOf({"a", "b", " ", "\n"}, 1, MaxBody)}

SnippetQueries == SeqsOf({"A", " ", "\n"}, 0, MaxQuery)

\* the session appends a message made of one text
WriteMessage(type, text) ==
    /\ pc = "write"
    /\ file = <<>>
    /\ file' = <<Rec(type, T10, Str(text), <<>>)>>
    /\ UNCHANGED <<mode, store, pc, op, records, idx, st, out, arg>>

InitSnippet ==
    /\ mode = "snippet"
    /\ pc = "write"
    /\ op = "none"
    /\ file = <<>>
    /\ store = <<>>
    /\ records = <<>>
    /\ idx = 0
    /\ st = ParseInit
    /\ out = None
    /\ arg = None

NextSnippet ==
    \/ \E type \in {"user", "assistant"}, text \in SnippetTexts :
          WriteMessage(type, text)
    \/ \E query \in SnippetQueries : SearchSession(query)

SpecSnippet == InitSnippet /\ [][NextSnippet]_vars

\* whether `piece` occurs in `text` as a contiguous substring
IsSubstring(piece, text) == FindFirst(text, piece, FALSE) >= 0

\* whether `text` contains `piece`, letter case ignored
ContainsIgnoringCase(text, piece) == FindFirst(text, piece, TRUE) >= 0

\* a context string without its leading and trailing ellipsis markers
RemoveEllipsis(context) ==
    LET lead == IF StartsWith(context, Ellipsis) THEN 3 ELSE 0
        rest == SubSeq(context, lead + 1, Len(context))
        trail == IF Len(rest) >= 3 /\ SubSeq(rest, Len(rest) - 2, Len(rest)) = Ellipsis
                 THEN 3 ELSE 0
    IN  SubSeq(rest, 1, Len(rest) - trail)

\* a search of a one-record file returned its match
Searched == pc = "done" /\ op = "search" /\ Len(file) = 1 /\ Len(out) = 1

\* C5 as stated: the context without its ellipsis markers is a contiguous
\* substring of the record's searchable text and contains the query, letter
\* case ignored
C5_ContextIsSubstringWithQuery ==
    Searched =>
        LET core == RemoveEllipsis(out[1].context)
            text == extract_text_from_record(file[1])
        IN  /\ IsSubstring(core, text)
            /\ ContainsIgnoringCase(core, arg)

\* C5 amended: the context without the ellipsis markers the search added is a
\* contiguous substring of the record's searchable text with its line breaks
\* replaced by spaces, and contains, letter case ignored, the query with its
\* line breaks replaced by spaces and its leading and trailing white space
\* removed
C5_ContextIsSubstringAfterCleanup ==
    Searched =>
        LET core == RemoveEllipsis(out[1].context)
            text == extract_text_from_record(file[1])
        IN  /\ IsSubstring(core, Replace(text, "\n", " "))
            /\ ContainsIgnoringCase(core, Strip(Replace(arg, "\n", " ")))

\* C5 witness: a match whose window was clipped on both sides and held a line
\* break, so that the context is no substring of the text as written
C5_Witness ==
    /\ Searched
    /\ StartsWith(out[1].context, Ellipsis)
    /\ Len(RemoveEllipsis(out[1].context)) + 6 = Len(out[1].context)
    /\ ~IsSubstring(RemoveEllipsis(out[1].context),
                    extract_text_from_record(file[1]))
    /\ arg # <<>>

---------------------------------------------------------------------------
(* utils.py: working directories and their storage directories *)

\* longest working-directory path, in characters
MaxPathLen == 4

\* the characters of a path of the model
PathChars == {"/", "-", "a", "b"}

\* str.lstrip("/")
RECURSIVE LStripSlash(_)
LStripSlash(s) ==
    IF s # <<>> /\ Head(s) = "/" THEN LStripSlash(Tail(s)) ELSE s

\* utils.cwd_to_project_path: the storage directory PROJECTS_DIR / name
cwd_to_project_path(cwd) ==
    LET normalized == Replace(LStripSlash(cwd), "/", "-")
    IN  [parent |-> "PROJECTS_DIR", name |-> <<"-">> \o normalized]

\* a reverse mapping that forgets the leading separator
project_path_to_cwd_NoRoot(project_path) ==
    LET name == IF StartsWith(project_path.name, <<"-">>)
                THEN Tail(project_path.name) ELSE project_path.name
    IN  Replace(name, "-", "/")

\* utils.project_path_to_cwd
project_path_to_cwd(project_path) ==
    LET name == IF StartsWith(project_path.name, <<"-">>)
                THEN Tail(project_path.name) ELSE project_path.name
    IN  <<"/">> \o Replace(name, "-", "/")

InitPath ==
    /\ mode = "path"
    /\ pc = "write"
    /\ op = "none"
    /\ file = <<>>
    /\ store = <<>>
    /\ records = <<>>
    /\ idx = 0
    /\ st = ParseInit
    /\ out = None
    /\ arg = <<"/">>

\* the working directory, an absolute path, is spelled out
ExtendCwd(c) ==
    /\ pc = "write"
    /\ Len(arg) < MaxPathLen
    /\ arg' = Append(arg, c)
    /\ UNCHANGED <<mode, store, pc, op, file, records, idx, st, out>>

\* cwd_to_project_path(cwd)
ToProjectPath ==
    /\ pc = "write"
    /\ out' = cwd_to_project_path(arg)
    /\ pc' = "mapped"
    /\ op' = "cwd_to_project_path"
    /\ UNCHANGED <<mode, store, file, records, idx, st, arg>>

\* project_path_to_cwd applied to that storage directory
ToCwd ==
    /\ pc = "mapped"
    /\ out' = project_path_to_cwd(out)
    /\ pc' = "done"
    /\ op' = "project_path_to_cwd"
    /\ UNCHANGED <<mode, store, file, records, idx, st, arg>>

NextPath ==
    \/ \E c \in PathChars : ExtendCwd(c)
    \/ ToProjectPath
    \/ ToCwd

SpecPath == InitPath /\ [][NextPath]_vars

PlainPath(path) ==
    /\ \A i \in 1..Len(path) : path[i] # "-"
    /\ ~StartsWith(path, <<"/", "/">>)

---------------------------------------------------------------------------
(* discover.discover_sessions and search.search_sessions over the session
   files of the scope *)

\* a datetime comparison; comparing a naive and an aware datetime raises
DateLess(a, b) == IF a.aware # b.aware THEN "TypeError"
                  ELSE IF Instant(a) < Instant(b) THEN "yes" ELSE "no"

\* lines 80-87 of discover.py, 158-165 of search.py: "keep", "drop", or the
\* exception the comparison raises.  after_dt and before_dt are None or a
\* datetime parse_relative_date returned (naive).
DateFilter(metadata, after_dt, before_dt) ==
    IF after_dt = None /\ before_dt = None THEN "keep"
    ELSE
    LET session_date == parse_timestamp(metadata.date)
        tooEarly == IF after_dt # None
                    THEN DateLess(session_date.v, after_dt.v) ELSE "no"
        tooLate == IF before_dt # None
                   THEN DateLess(before_dt.v, session_date.v) ELSE "no"
    IN  IF session_date.tag # "Some" THEN "keep"
        ELSE IF tooEarly = "TypeError" THEN "TypeError"
        ELSE IF tooEarly = "yes" THEN "drop"
        ELSE IF tooLate = "TypeError" THEN "TypeError"
        ELSE IF tooLate = "yes" THEN "drop"
        ELSE "keep"

\* the quick metadata of a session file, with its path (utils.py line 297)
SessionMetadata(f) ==
    LET m == get_session_quick_metadata(f.lines)
    IN  IF m.tag = "ok"
        THEN [tag |-> "ok", path |-> f.path, date |-> m.date,
              duration_seconds |-> m.duration_seconds,
              preview |-> m.preview, message_count |-> m.message_count]
        ELSE m

\* the order of two date strings as Python compares str: the date and time
\* fields have a fixed width, and a naive string is a proper prefix of the
\* aware string of the same time
DateStrLess(a, b) ==
    \/ a.sec < b.sec
    \/ a.sec = b.sec /\ a.tz = "" /\ b.tz # ""
    \/ a.sec = b.sec /\ a.tz = "+00:00" /\ b.tz = "+01:00"

\* the sort key: s.get("date", "") of a metadata dict, and
\* r["session"].get("date", "") of a search result
DateKey(item) ==
    IF "session" \in DOMAIN item THEN item.session.date ELSE item.date

\* x put into a list sorted by descending key, after the items of equal key
RECURSIVE InsertByDateDesc(_, _)
InsertByDateDesc(sorted, x) ==
    IF sorted = <<>> THEN <<x>>
    ELSE IF DateStrLess(DateKey(Head(sorted)), DateKey(x))
    THEN <<x>> \o sorted
    ELSE <<Head(sorted)>> \o InsertByDateDesc(Tail(sorted), x)

\* list.sort(key = date, reverse = True): stable, newest first
RECURSIVE SortByDateDesc(_)
SortByDateDesc(items) ==
    IF items = <<>> THEN <<>>
    ELSE InsertByDateDesc(SortByDateDesc(SubSeq(items, 1, Len(items) - 1)),
                          items[Len(items)])

\* lines 74-89 of discover.py: the metadata of the sessions the filter keeps
RECURSIVE DiscoverCollect(_, _, _, _)
DiscoverCollect(files, after_dt, before_dt, sessions) ==
    IF files = <<>> THEN [tag |-> "ok", items |-> sessions]
    ELSE
    LET metadata == SessionMetadata(Head(files)) IN
    IF metadata.tag = "None"
    THEN DiscoverCollect(Tail(files), after_dt, before_dt, sessions)
    ELSE IF metadata.tag = "raise" THEN metadata
    ELSE
    LET verdict == DateFilter(metadata, after_dt, before_dt) IN
    CASE verdict = "TypeError" -> Raise("TypeError")
      [] verdict = "drop" ->
            DiscoverCollect(Tail(files), after_dt, before_dt, sessions)
      [] OTHER ->
            DiscoverCollect(Tail(files), after_dt, before_dt,
                            Append(sessions, metadata))

\* list[offset:] and list[:limit]
DropFirst(items, n) == SubSeq(items, Min(n, Len(items)) + 1, Len(items))

TakeFirst(items, n) == SubSeq(items, 1, Min(n, Len(items)))

\* discover.discover_sessions, from the session files on
discover_sessions(files, limit, offset, after_dt, before_dt) ==
    LET found == DiscoverCollect(files, after_dt, before_dt, <<>>) IN
    IF found.tag = "raise" THEN found
    ELSE
    LET sorted == SortByDateDesc(found.items)
        skipped == IF offset > 0 THEN DropFirst(sorted, offset) ELSE sorted
    IN  [tag |-> "ok",
         items |-> IF limit > 0 THEN TakeFirst(skipped, limit) ELSE skipped]

\* the matches search_sessions keeps per session
MatchesPerSession == 5

\* an entry that reports the number of matches it kept
SessionResult_CountsKept(metadata, matches) ==
    [session |-> metadata,
     matches |-> TakeFirst(matches, MatchesPerSession),
     match_count |-> Len(TakeFirst(matches, MatchesPerSession))]

\* lines 170-174 of search.py: the entry of a session with matches
SessionResult(metadata, matches) ==
    [session |-> metadata,
     matches |-> TakeFirst(matches, MatchesPerSession),
     match_count |-> Len(matches)]

\* lines 151-174 of search.py: the entries of the sessions with matches
RECURSIVE SearchCollect(_, _, _, _, _)
SearchCollect(files, query, after_dt, before_dt, results) ==
    IF files = <<>> THEN [tag |-> "ok", items |-> results]
    ELSE
    LET metadata == SessionMetadata(Head(files)) IN
    IF metadata.tag = "None"
    THEN SearchCollect(Tail(files), query, after_dt, before_dt, results)
    ELSE IF metadata.tag = "raise" THEN metadata
    ELSE
    LET verdict == DateFilter(metadata, after_dt, before_dt)
        matches == search_session(Head(files).lines, query, TRUE)
    IN
    CASE verdict = "TypeError" -> Raise("TypeError")
      [] verdict = "drop" \/ matches = <<>> ->
            SearchCollect(Tail(files), query, after_dt, before_dt, results)
      [] OTHER ->
            SearchCollect(Tail(files), query, after_dt, before_dt,
                          Append(results, SessionResult(metadata, matches)))

\* search.search_sessions, from the session files on
search_sessions(files, query, after_dt, before_dt, limit) ==
    LET found == SearchCollect(files, query, after_dt, before_dt, <<>>) IN
    IF found.tag = "raise" THEN found
    ELSE
    LET sorted == SortByDateDesc(found.items)
    IN  [tag |-> "ok",
         items |-> IF limit > 0 THEN TakeFirst(sorted, limit) ELSE sorted]

---------------------------------------------------------------------------
(* The session files of a scope, and the two queries over them *)

\* most session files in the scope, and most lines of a session file
MaxSessions == 3

MaxStoreLines == 7

Fix == <<"f", "i", "x">>

\* a session file of one message
ShortSession(ts, text) == <<Rec("user", ts, Str(text), <<>>)>>

\* a session file of MaxStoreLines records one second apart, each holding the
\* word searched for; the second is of a type the search does not read
LongSession(sec, tz) ==
    [i \in 1..MaxStoreLines |->
        Rec(IF i = 2 THEN "system" ELSE IF i % 2 = 1 THEN "user" ELSE "assistant",
            Iso(sec + i - 1, tz), Str(Fix), <<>>)]

\* the session files: timestamps with and without a UTC suffix, with and
\* without the word, one written in a zone an hour ahead of UTC (15 seconds
\* into 2020 in UTC), and one with a placeholder date
StoreFiles ==
    { ShortSession(Iso(10, ""), Fix),
      ShortSession(Iso(20, ""), <<"n", "o">>),
      ShortSession(Iso(30, ""), Fix),
      LongSession(20, ""),
      ShortSession(Iso(20, "Z"), Fix),
      LongSession(10, "Z"),
      ShortSession(Iso(3615, "+01:00"), Fix),
      ShortSession(TOld, Fix) }

\* the date bounds a caller can give: none, or the naive datetime
\* parse_relative_date returns
AfterChoices == {None, Some([sec |-> 15, aware |-> FALSE, off |-> 0])}

BeforeChoices == {None, Some([sec |-> 25, aware |-> FALSE, off |-> 0])}

LimitChoices == {0, 1}

OffsetChoices == {0, 1}

InitStore ==
    /\ mode = "store"
    /\ pc = "write"
    /\ op = "none"
    /\ file = <<>>
    /\ store = <<>>
    /\ records = <<>>
    /\ idx = 0
    /\ st = ParseInit
    /\ out = None
    /\ arg = None

\* a session file appears in the scope
AddSession(lines) ==
    /\ pc = "write"
    /\ Len(store) < MaxSessions
    /\ store' = Append(store, [path |-> Len(store) + 1, lines |-> lines])
    /\ UNCHANGED <<mode, pc, op, file, records, idx, st, out, arg>>

\* discover_sessions(limit, offset, after_date, before_date)
Discover(limit, offset, after_dt, before_dt) ==
    /\ pc = "write"
    /\ out' = discover_sessions(store, limit, offset, after_dt, before_dt)
    /\ arg' = [limit |-> limit, offset |-> offset,
               after_dt |-> after_dt, before_dt |-> before_dt]
    /\ pc' = "done"
    /\ op' = "discover"
    /\ UNCHANGED <<mode, file, store, records, idx, st>>

\* search_sessions(query, after_date, before_date, limit)
SearchSessions(query, after_dt, before_dt, limit) ==
    /\ pc = "write"
    /\ out' = search_sessions(store, query, after_dt, before_dt, limit)
    /\ arg' = [query |-> query, limit |-> limit,
               after_dt |-> after_dt, before_dt |-> before_dt]
    /\ pc' = "done"
    /\ op' = "search_sessions"
    /\ UNCHANGED <<mode, file, store, records, idx, st>>

NextStore ==
    \/ \E lines \in StoreFiles : AddSession(lines)
    \/ \E limit \in LimitChoices, offset \in OffsetChoices,
          after_dt \in AfterChoices, before_dt \in BeforeChoices :
          Discover(limit, offset, after_dt, before_dt)
    \/ \E limit \in LimitChoices,
          after_dt \in AfterChoices, before_dt \in BeforeChoices :
          SearchSessions(<<"F", "i", "x">>, after_dt, before_dt, limit)

SpecStore == InitStore /\ [][NextStore]_vars

\* the session files of the scope that have quick metadata
WithMetadata == {i \in 1..Len(store) :
                    get_session_quick_metadata(store[i].lines).tag = "ok"}

\* the first timestamp of a session file that has quick metadata
FirstTime(i) ==
    parse_timestamp(get_session_quick_metadata(store[i].lines).date).v

\* whether a time is within the bounds given, as points in time
InRange(t, after_dt, before_dt) ==
    /\ after_dt # None => Instant(t) >= Instant(after_dt.v)
    /\ before_dt # None => Instant(t) <= Instant(before_dt.v)

\* the paths of the sessions of a result list
PathsOf(items) ==
    {(IF "session" \in DOMAIN items[i] THEN items[i].session.path
      ELSE items[i].path) : i \in 1..Len(items)}

\* C6: in discover_sessions and search_sessions a session with quick metadata
\* is kept iff its first timestamp T satisfies T >= A under an after bound A
\* and T <= B under a before bound B, and for no other date-related reason
C6_DateFilterIsRangePredicate ==
    /\ (pc = "done" /\ op = "discover" /\ arg.limit = 0 /\ arg.offset = 0) =>
          /\ out.tag = "ok"
          /\ PathsOf(out.items) =
                {i \in WithMetadata :
                    InRange(FirstTime(i), arg.after_dt, arg.before_dt)}
    /\ (pc = "done" /\ op = "search_sessions" /\ arg.limit = 0) =>
          /\ out.tag = "ok"
          /\ PathsOf(out.items) =
                {i \in WithMetadata :
                    /\ InRange(FirstTime(i), arg.after_dt, arg.before_dt)
                    /\ search_session(store[i].lines, arg.query, TRUE) # <<>>}

\* the records of a session file that hold the query, letter case ignored, in
\* a user or assistant message
MatchingRecords(lines, query) ==
    {j \in 1..Len(lines) :
        /\ lines[j].kind = "record"
        /\ lines[j].type \in {"user", "assistant"}
        /\ ContainsIgnoringCase(extract_text_from_record(lines[j]), query)}

\* C10: every session of search_sessions' output keeps at most 5 matches, the
\* first 5 of its matches in record order, reports the number of all its
\* matching records, and has at least one
C10_MatchesCappedCountTrue ==
    (pc = "done" /\ op = "search_sessions" /\ out.tag = "ok") =>
        \A k \in 1..Len(out.items) :
            LET r == out.items[k]
                lines == store[r.session.path].lines
                all == search_session(lines, arg.query, TRUE)
            IN  /\ Len(r.matches) <= 5
                /\ r.matches = SubSeq(all, 1, Min(5, Len(all)))
                /\ r.match_count = Cardinality(MatchingRecords(lines, arg.query))
                /\ r.match_count > 0

\* C10 witness: a session of the output has more matches than it keeps
C10_Witness ==
    /\ pc = "done"
    /\ op = "search_sessions"
    /\ out.tag = "ok"
    /\ \E k \in 1..Len(out.items) :
          /\ out.items[k].match_count > 5
          /\ Len(out.items[k].matches) = 5

---------------------------------------------------------------------------
(* discover_sessions: order and paging *)

\* the point in time of an entry of a result list
TimeOf(item) == parse_timestamp(DateKey(item)).v

\* a list is newest first: no entry is older than one that follows it, among
\* entries that can be compared (both with a zone or both without)
NewestFirst(items) ==
    \A j, k \in 1..Len(items) :
        (j < k /\ TimeOf(items[j]).aware = TimeOf(items[k]).aware) =>
            Instant(TimeOf(items[j])) >= Instant(TimeOf(items[k]))

\* what the same call returns with no offset and no limit
FullList ==
    discover_sessions(store, 0, 0, arg.after_dt, arg.before_dt).items

\* a discover_sessions call returned its list
Discovered == pc = "done" /\ op = "discover" /\ out.tag = "ok"

\* C11: the list discover_sessions returns is the date-filtered sessions
\* ordered newest first, without the first `offset` entries and cut to `limit`
\* entries when limit > 0
C11_NewestFirstThenPaged ==
    Discovered =>
        /\ NewestFirst(FullList)
        /\ PathsOf(FullList) =
              {i \in WithMetadata :
                  InRange(FirstTime(i), arg.after_dt, arg.before_dt)}
        /\ out.items =
              LET rest == DropFirst(FullList, arg.offset)
              IN  IF arg.limit > 0 THEN TakeFirst(rest, arg.limit) ELSE rest

---------------------------------------------------------------------------
(* parse_session and get_session_quick_metadata: timing *)

InitTiming ==
    /\ mode = "timing"
    /\ pc = "write"
    /\ op = "none"
    /\ file = <<>>
    /\ store = <<>>
    /\ records = <<>>
    /\ idx = 0
    /\ st = ParseInit
    /\ out = None
    /\ arg = None

SpecTiming == InitTiming /\ [][Next]_vars

\* the point in time of a turn, when its timestamp parses
TurnTime(turn) == parse_timestamp(turn.timestamp)

\* C12: every turn but the last has as duration the next turn's timestamp
\* minus its own, negative when the next is earlier, and the last turn has 0
C12_DurationIsGapToNext ==
    Parsed =>
        \A i \in 1..Len(out.turns) :
            IF i = Len(out.turns)
            THEN out.turns[i].duration_seconds = 0
            ELSE (TurnTime(out.turns[i]).tag = "Some"
                  /\ TurnTime(out.turns[i + 1]).tag = "Some") =>
                    out.turns[i].duration_seconds =
                        Instant(TurnTime(out.turns[i + 1]).v)
                        - Instant(TurnTime(out.turns[i]).v)

\* the quick scan returned a metadata record
Scanned == pc = "done" /\ op = "quick" /\ out.tag = "ok"

\* C17: on a file for which the quick scan and the full parse both return a
\* result, the two agree on the date and on the duration of the session
C17_QuickAndParseAgreeOnTiming ==
    Scanned =>
        LET parsed == parse_session(file) IN
        parsed.tag = "ok" =>
            /\ parsed.metadata.date = Some(out.date)
            /\ parsed.metadata.duration_seconds = out.duration_seconds

\* C17 witness: both returned a result for a file that ends in a record of
\* another type, whose timestamp is earlier than the first message's: both
\* report the date of the message and a negative duration
C17_Witness ==
    /\ Scanned
    /\ parse_session(file).tag = "ok"
    /\ Len(file) >= 2
    /\ file[1] = Rec("user", T10, Str(<<"h", "i">>), <<>>)
    /\ file[Len(file)].type = "system"
    /\ out.date = Iso(10, "+00:00")
    /\ out.duration_seconds = -15
    /\ parse_session(file).metadata.duration_seconds = -15

---------------------------------------------------------------------------
(* get_session_quick_metadata: the preview *)

InitPreview ==
    /\ mode = "preview"
    /\ pc = "write"
    /\ op = "none"
    /\ file = <<>>
    /\ store = <<>>
    /\ records = <<>>
    /\ idx = 0
    /\ st = ParseInit
    /\ out = None
    /\ arg = None

SpecPreview == InitPreview /\ [][Next]_vars

\* a text that is not empty and starts with neither '<' nor '/'
Substantive(text) ==
    text # <<>> /\ ~StartsWith(text, <<"<">>) /\ ~StartsWith(text, <<"/">>)

\* the whole text of a user record, trimmed
WholeText(record) == Strip(extract_text_content(record.content))

\* the trimmed string content of a user record, or its first text block,
\* trimmed, when the content is a list of blocks
FirstText(record) ==
    IF record.content.isa = "str" THEN Strip(record.content.s)
    ELSE LET blocks == BlocksOfType(record.content.items, "text")
         IN  IF blocks = <<>> THEN <<>> ELSE Strip(blocks[1].text)

\* the previews that can be said to be taken from a user record: its whole
\* text or one of its text blocks, trimmed and cut to the preview length
PreviewsFrom(record) ==
    LET blocks == IF record.content.isa = "str" THEN <<>>
                  ELSE BlocksOfType(record.content.items, "text")
        texts == {WholeText(record)}
                 \cup {Strip(blocks[i].text) : i \in 1..Len(blocks)}
    IN  {truncate_text(t, PreviewLength) : t \in texts \ {<<>>}}

\* C13 as stated: the preview comes from the first user record, in file
\* order, whose text is not empty and starts with neither '<' nor '/', and is
\* "(no preview)" when there is no such record
C13_PreviewFromFirstSubstantiveText ==
    Scanned =>
        LET users == SelectSeq(read_jsonl_file(file), LAMBDA r :
                        r.type = "user" /\ Substantive(WholeText(r)))
        IN  IF users = <<>> THEN out.preview = NoPreview
            ELSE out.preview \in PreviewsFrom(users[1])

\* C13 amended: the same, the text of a user record being its trimmed string
\* content or, for a list of blocks, its first text block, trimmed
C13_PreviewFromFirstSubstantiveBlock ==
    Scanned =>
        LET users == SelectSeq(read_jsonl_file(file), LAMBDA r :
                        r.type = "user" /\ Substantive(FirstText(r)))
        IN  IF users = <<>> THEN out.preview = NoPreview
            ELSE out.preview = truncate_text(FirstText(users[1]), PreviewLength)

\* C13 witness: the scan passed over a tag and a command, took the preview
\* from the message after them and kept it when another message followed
C13_Witness ==
    /\ Scanned
    /\ Len(file) = 3
    /\ file[1].content = Str(<<"<", "t", ">">>)
    /\ file[2].content = Str(<<"h", "i">>)
    /\ file[3].content = List(<<Text(<<"a">>), Text(<<"b">>)>>)
    /\ out.preview = <<"h", "i">>

---------------------------------------------------------------------------
(* search_session: one match per matching record *)

InitSearch ==
    /\ mode = "search"
    /\ pc = "write"
    /\ op = "none"
    /\ file = <<>>
    /\ store = <<>>
    /\ records = <<>>
    /\ idx = 0
    /\ st = ParseInit
    /\ out = None
    /\ arg = None

SpecSearch == InitSearch /\ [][Next]_vars

\* the user and assistant records of the file whose searchable text holds
\* the query, letter case ignored, in file order
RecordsHolding(query) ==
    SelectSeq(read_jsonl_file(file), LAMBDA r :
        /\ r.type \in {"user", "assistant"}
        /\ ContainsIgnoringCase(extract_text_from_record(r), query))

\* the matches are those of the given records, one each, in their order
OneMatchEach(recs) ==
    /\ Len(out) = Len(recs)
    /\ \A i \in 1..Len(recs) :
          /\ out[i].type = recs[i].type
          /\ out[i].timestamp = recs[i].timestamp

\* C14 as stated: exactly one match per user or assistant record whose
\* searchable text holds the query, in file order, and none for a record of
\* another type
C14_OneMatchPerHoldingRecord ==
    (pc = "done" /\ op = "search") => OneMatchEach(RecordsHolding(arg))

\* C14 amended: the same, for the records whose searchable text is not empty
C14_OneMatchPerNonEmptyHoldingRecord ==
    (pc = "done" /\ op = "search") =>
        OneMatchEach(SelectSeq(RecordsHolding(arg), LAMBDA r :
                        extract_text_from_record(r) # <<>>))

\* C14 witness: a record that holds the letter twice, then a record of
\* another type that holds it, then a tool call that holds it: two matches
C14_Witness ==
    /\ pc = "done"
    /\ op = "search"
    /\ arg = <<"a">>
    /\ file = << Rec("user", Iso(1, "Z"), Str(<<"a", "a">>), <<>>),
                 Rec("system", Iso(6, "Z"), Str(<<"a">>), <<>>),
                 Rec("assistant", Iso(5, "Z"),
                     List(<<ToolUse("t1", "Bash", Dict1("command", <<"a">>))>>),
                     <<>>) >>
    /\ Len(out) = 2
    /\ out[2].type = "assistant"

---------------------------------------------------------------------------
(* parse_session: tool calls *)

InitTools ==
    /\ mode = "tools"
    /\ pc = "write"
    /\ op = "none"
    /\ file = <<>>
    /\ store = <<>>
    /\ records = <<>>
    /\ idx = 0
    /\ st = ParseInit
    /\ out = None
    /\ arg = None

SpecTools == InitTools /\ [][Next]_vars

\* the tool calls of the assistant records of a record list, in record order
RECURSIVE ToolCallsIn(_)
ToolCallsIn(recs) ==
    IF recs = <<>> THEN <<>>
    ELSE (IF Head(recs).type = "assistant"
          THEN extract_tool_calls(Head(recs).content) ELSE <<>>)
         \o ToolCallsIn(Tail(recs))

\* the records from the first user record with text on: those read while a
\* turn is open
RECURSIVE FromFirstTurn(_)
FromFirstTurn(recs) ==
    IF recs = <<>> THEN <<>>
    ELSE IF Head(recs).type = "user"
            /\ Strip(extract_text_content(Head(recs).content)) # <<>>
    THEN recs
    ELSE FromFirstTurn(Tail(recs))

\* the distinct non-empty file paths of the calls of one tool
FilePathsOf(calls, name) ==
    {Get(calls[i].input, "file_path", <<>>) :
        i \in {j \in 1..Len(calls) : calls[j].name = name}} \ {<<>>}

\* the non-empty commands of the Bash calls, in order, repeats kept
CommandsOf(calls) ==
    LET bash == SelectSeq(calls, LAMBDA c :
                    c.name = "Bash" /\ Get(c.input, "command", <<>>) # <<>>)
    IN  [i \in 1..Len(bash) |-> bash[i].input.command]

\* a list holds exactly the strings of a set, each once
HoldsEachOnce(list, strings) ==
    /\ {list[i] : i \in 1..Len(list)} = strings
    /\ Len(list) = Cardinality(strings)

\* the stats are those of the given tool calls
StatsOf(calls) ==
    /\ HoldsEachOnce(out.stats.files_read, FilePathsOf(calls, "Read"))
    /\ HoldsEachOnce(out.stats.files_edited, FilePathsOf(calls, "Edit"))
    /\ HoldsEachOnce(out.stats.files_created, FilePathsOf(calls, "Write"))
    /\ out.stats.commands_run = CommandsOf(calls)
    /\ out.stats.commands_count = Len(CommandsOf(calls))

\* C15 as stated: the three file lists hold every distinct non-empty path of
\* the Read, Edit and Write calls once, and commands_run every non-empty
\* command of the Bash calls in record order, repeats kept
C15_StatsOfEveryToolCall ==
    Parsed => StatsOf(ToolCallsIn(read_jsonl_file(file)))

\* C15 amended: the same, of the tool calls of the assistant records that
\* come after the first user record with text
C15_StatsOfToolCallsInTurns ==
    Parsed => StatsOf(ToolCallsIn(FromFirstTurn(read_jsonl_file(file))))

\* C15 witness: a command run in two records is listed twice, a file read in
\* two records once
C15_Witness ==
    /\ Parsed
    /\ Len(file) = 3
    /\ file[2] = file[3]
    /\ out.stats.commands_run = << <<"l", "s">>, <<"l", "s">> >>
    /\ out.stats.files_read = << <<"f">> >>
    /\ out.stats.files_edited = << <<"f">> >>

---------------------------------------------------------------------------
(* C16: the result of a tool call is the one known when it is recorded *)

\* the texts of the tool_result blocks with the given id, one per block
RECURSIVE BlockResults(_, _)
BlockResults(items, id) ==
    IF items = <<>> THEN <<>>
    ELSE (IF Head(items).type = "tool_result" /\ Head(items).tool_use_id = id
          THEN <<ResultText(Head(items))>> ELSE <<>>)
         \o BlockResults(Tail(items), id)

\* the texts of the tool_result blocks with that id in the user records among
\* the first n records, in file order
RECURSIVE ResultsSeen(_, _, _)
ResultsSeen(recs, n, id) ==
    IF n = 0 THEN <<>>
    ELSE ResultsSeen(recs, n - 1, id)
         \o (IF recs[n].type = "user" /\ recs[n].content.isa = "list"
             THEN BlockResults(recs[n].content.items, id) ELSE <<>>)

\* the most recent of them, the empty string when there is none
LatestResult(recs, n, id) ==
    LET seen == ResultsSeen(recs, n, id)
    IN  IF seen = <<>> THEN <<>> ELSE seen[Len(seen)]

\* the tool calls of turn object h in the loop state s
CallsOf(s, h) == IF h <= Len(s.heap) THEN s.heap[h].tool_calls ELSE <<>>

\* C16: every step of the parse loop leaves the tool calls already recorded
\* as they are, results included; the calls it adds come from an assistant
\* record and each has as result the text of the most recent tool_result
\* block of its id in the user records strictly before that record (empty
\* when there is none); the turns returned carry exactly these calls.
C16_ResultFixedWhenRecorded ==
    [][/\ (pc = "parse" /\ idx' = idx + 1) =>
            \A h \in 1..Len(st'.heap) :
                LET old == CallsOf(st, h)
                    new == CallsOf(st', h)
                IN  /\ Len(new) >= Len(old)
                    /\ \A j \in 1..Len(old) : new[j] = old[j]
                    /\ \A j \in (Len(old) + 1)..Len(new) :
                          /\ records[idx].type = "assistant"
                          /\ new[j].result =
                                LatestResult(records, idx - 1, new[j].id)
       /\ (pc = "parse" /\ pc' = "done" /\ out'.tag = "ok") =>
            /\ Len(out'.turns) = Len(st.turns) + (IF st.current_turn # 0 THEN 1 ELSE 0)
            /\ \A i \in 1..Len(out'.turns) :
                  out'.turns[i].tool_calls =
                      CallsOf(st, IF i <= Len(st.turns) THEN st.turns[i]
                                  ELSE st.current_turn)
      ]_vars

\* C16 witness: a call recorded with the result "o2" known at its record
\* keeps it although a later user record brings "o1" for the same id
C16_Witness ==
    /\ pc = "done" /\ op = "parse" /\ out.tag = "ok"
    /\ Len(file) = 3
    /\ file[1].type = "user" /\ file[2].type = "assistant"
    /\ file[3].type = "user"
    /\ LatestResult(file, 1, "t1") = <<"o", "2">>
    /\ LatestResult(file, 3, "t1") = <<"o", "1">>
    /\ \E i \in 1..Len(out.turns) :
          /\ Len(out.turns[i].tool_calls) > 0
          /\ out.turns[i].tool_calls[1].id = "t1"
          /\ out.turns[i].tool_calls[1].result = <<"o", "2">>

---------------------------------------------------------------------------
(* C18: several assistant records in one turn *)

\* a user record that opens a turn: its extracted text is not blank
OpensTurn(rec) ==
    rec.type = "user" /\ Strip(extract_text_content(rec.content)) # <<>>

\* the position of the record that opens the k-th turn
TurnStart(recs, k) ==
    CHOOSE i \in 1..Len(recs) :
        /\ OpensTurn(recs[i])
        /\ Cardinality({j \in 1..i : OpensTurn(recs[j])}) = k

\* the assistant records read while the k-th turn is open, in record order
AssistantsOfTurn(recs, k) ==
    LET from == TurnStart(recs, k)
        open(i) == /\ i > from
                   /\ \A j \in (from + 1)..i : ~OpensTurn(recs[j])
        Pick[i \in 0..Len(recs)] ==
            IF i = 0 THEN <<>>
            ELSE Pick[i - 1] \o (IF open(i) /\ recs[i].type = "assistant"
                                 THEN <<recs[i]>> ELSE <<>>)
    IN  Pick[Len(recs)]

\* a recorded tool call without its result
CallOnly(tc) == [id |-> tc.id, name |-> tc.name, input |-> tc.input]

\* the turn holds the text of the last of the records and the calls of all
TurnHolds(turn, asst) ==
    /\ turn.assistant_response =
          (IF asst = <<>> THEN <<>>
           ELSE extract_text_content(asst[Len(asst)].content))
    /\ [j \in 1..Len(turn.tool_calls) |-> CallOnly(turn.tool_calls[j])]
          = ToolCallsIn(asst)

\* C18: after parsing, each turn's assistant_response is the extracted text
\* of the last assistant record read while it was open (earlier text is
\* gone) and its tool_calls are the tool calls of all of those records in
\* record order.
C18_LastTextAllCalls ==
    Parsed =>
        LET recs == read_jsonl_file(file)
        IN  /\ Len(st.heap) =
                  Cardinality({i \in 1..Len(recs) : OpensTurn(recs[i])})
            /\ \A i \in 1..Len(out.turns) :
                  LET k == IF i <= Len(st.turns) THEN st.turns[i]
                           ELSE st.current_turn
                  IN  /\ out.turns[i].user_message =
                            extract_text_content(recs[TurnStart(recs, k)].content)
                      /\ TurnHolds(out.turns[i], AssistantsOfTurn(recs, k))

\* C18 witness: a turn with two assistant records, both with text and tool
\* calls: the text is the second record's, the calls are those of both
C18_Witness ==
    /\ Parsed
    /\ Len(file) = 3
    /\ OpensTurn(file[1])
    /\ file[2].type = "assistant" /\ file[3].type = "assistant"
    /\ extract_text_content(file[2].content) = <<"r", "1">>
    /\ extract_text_content(file[3].content) = <<"r", "2">>
    /\ out.turns[1].assistant_response = <<"r", "2">>
    /\ Len(extract_tool_calls(file[2].content)) = 2
    /\ Len(extract_tool_calls(file[3].content)) = 2
    /\ Len(out.turns[1].tool_calls) = 4

---------------------------------------------------------------------------
(* utils.get_project_dir_for_scope: the storage directories of a scope *)

\* most working directories that have a storage directory
MaxProjects == 2

\* the working directories sessions may have been started in
ProjectCwds ==
    { <<"/", "a">>, <<"/", "b">>, <<"/", "a", "/", "b">>,
      <<"/", "a", "-", "b">>, <<"/", "a", "-">>,
      <<"/", "a", "/", "b", "/", "a">> }

\* the components of a path: its pieces between separators, empty ones dropped
RECURSIVE SplitPath(_, _, _)
SplitPath(s, cur, acc) ==
    IF s = <<>> THEN (IF cur = <<>> THEN acc ELSE Append(acc, cur))
    ELSE IF Head(s) = "/"
    THEN SplitPath(Tail(s), <<>>, IF cur = <<>> THEN acc ELSE Append(acc, cur))
    ELSE SplitPath(Tail(s), Append(cur, Head(s)), acc)

Components(path) == SplitPath(path, <<>>, <<>>)

\* str(Path(cwd).parent) of an absolute path: the path without its last
\* component; a root of exactly two separators is kept as it is
PathParent(cwd) ==
    LET parts == Components(cwd)
        root == IF StartsWith(cwd, <<"/", "/">>)
                   /\ ~StartsWith(cwd, <<"/", "/", "/">>)
                THEN <<"/", "/">> ELSE <<"/">>
    IN  IF parts = <<>> THEN root
        ELSE root \o Join(<<"/">>, SubSeq(parts, 1, Len(parts) - 1))

\* lines 86-93: the directories of the storage root whose name starts with
\* the mapped name of cwd and a dash
children(cwd, names) ==
    LET cwd_prefix == cwd_to_project_path(cwd).name
    IN  {[parent |-> "PROJECTS_DIR", name |-> n] :
            n \in {x \in names : StartsWith(x, cwd_prefix \o <<"-">>)}}

\* utils.get_project_dir_for_scope(scope, cwd) over a storage root whose
\* directories have the given names.  The result is the set of the returned
\* list: the order is the order of the directory listing.
get_project_dir_for_scope(scope, cwd, names) ==
    LET exists(dir) == dir.name \in names
    IN  CASE scope \in {"personal", "all"} ->
               {[parent |-> "PROJECTS_DIR", name |-> n] : n \in names}
          [] scope = "project" ->
               {d \in {cwd_to_project_path(cwd)} : exists(d)}
          [] scope = "parent" ->
               {d \in {cwd_to_project_path(PathParent(cwd))} : exists(d)}
          [] scope = "children" -> children(cwd, names)
          [] OTHER -> {}

\* the names of the directories of the storage root: one for each working
\* directory a session was started in
StorageNames(cwds) == {cwd_to_project_path(w).name : w \in cwds}

InitScope ==
    /\ mode = "scope"
    /\ pc = "write"
    /\ op = "none"
    /\ file = <<>>
    /\ store = {}
    /\ records = <<>>
    /\ idx = 0
    /\ st = ParseInit
    /\ out = None
    /\ arg = <<"/">>

\* a session is started in working directory w: its storage directory exists
StartSessionIn(w) ==
    /\ pc = "write"
    /\ w \notin store
    /\ Cardinality(store) < MaxProjects
    /\ store' = store \cup {w}
    /\ UNCHANGED <<mode, pc, op, file, records, idx, st, out, arg>>

\* get_project_dir_for_scope(scope, cwd)
ProjectDirsForScope(scope) ==
    /\ pc = "write"
    /\ out' = get_project_dir_for_scope(scope, arg, StorageNames(store))
    /\ pc' = "done"
    /\ op' = scope
    /\ UNCHANGED <<mode, store, file, records, idx, st, arg>>

NextScope ==
    \/ \E c \in PathChars : ExtendCwd(c)
    \/ \E w \in ProjectCwds : StartSessionIn(w)
    \/ \E scope \in {"project", "parent", "children", "personal", "all"} :
          ProjectDirsForScope(scope)

SpecScope == InitScope /\ [][NextScope]_vars

\* working directory w lies strictly below cwd
NestedUnder(w, cwd) ==
    LET c == Components(cwd)
        p == Components(w)
    IN  Len(p) > Len(c) /\ SubSeq(p, 1, Len(c)) = c

\* C19: for scope 'children', every directory returned stores the sessions
\* of working directories strictly below cwd only (not of cwd, not of a
\* sibling whose name is cwd's with a dash and more), and the storage
\* directory of every working directory strictly below cwd is returned.
C19_ChildrenAreNestedDirs ==
    (pc = "done" /\ op = "children") =>
        /\ \A d \in out : \A w \in store :
              cwd_to_project_path(w) = d => NestedUnder(w, arg)
        /\ \A w \in store :
              NestedUnder(w, arg) => cwd_to_project_path(w) \in out


====
